---- MODULE Spec2Model ----
(***************************************************************************)
(* Model of scripts/analyze_semantic_drift.py: context extraction          *)
(* (extract_sentences, is_boilerplate), decade bucketing (get_decade),     *)
(* cosine similarity and the per-term drift pipeline                       *)
(* (analyze_semantic_drift).                                               *)
(*                                                                         *)
(* Texts are sequences of one-character strings.  Positions are 0-based as *)
(* in the Python source; text[i] of the source is text[i + 1] here.        *)
(***************************************************************************)
EXTENDS Integers, Sequences, FiniteSets, TLC

(***************************************************************************)
(* Bounds.  The three extraction limits are the source's 150, 500 and 50   *)
(* scaled down so that bounded texts exercise them; they keep the source's *)
(* relation 2 * window + len(variant) <= maximum excerpt length.           *)
(***************************************************************************)
MaxTextLen == 5

context_window == 1

MAX_CONTEXT_LEN == 4

MIN_CONTEXT_LEN == 1

(***************************************************************************)
(* Characters.  "a"/"A" is a letter in both cases, "b" another letter,     *)
(* "+" a non-word character that is neither whitespace nor a delimiter,    *)
(* "." stands for the delimiters . ! ? and "\n" is both whitespace and a   *)
(* delimiter.                                                              *)
(***************************************************************************)
Alphabet == {"a", "A", "b", " ", ".", "\n", "+"}

IsWord(c) == c \in {"a", "A", "b"}

IsSpace(c) == c \in {" ", "\n"}

IsDelim(c) == c \in {".", "\n"}

Lower(c) == IF c = "A" THEN "a" ELSE c

LowerSeq(s) == [i \in 1..Len(s) |-> Lower(s[i])]

Min(x, y) == IF x < y THEN x ELSE y

Max(x, y) == IF x > y THEN x ELSE y

Texts == UNION {[1..n -> Alphabet] : n \in 0..MaxTextLen}

\* The variant lists handed to extract_sentences: one variant, a variant
\* ending in a non-word character, a repeated variant, two distinct variants.
VariantLists ==
    { << <<"a">> >>,
      << <<"a", "+">> >>,
      << <<"a">>, <<"A">> >>,
      << <<"b">>, <<"a">> >> }

\* BOILERPLATE_PATTERNS: literal phrases searched in the lower-cased text.
BOILERPLATE_PATTERNS == << <<"a", "b">> >>

\* s occurs in t as a contiguous substring (re.search of a literal).
Contains(t, s) ==
    \E p \in 0..(Len(t) - Len(s)) : \A k \in 1..Len(s) : t[p + k] = s[k]

\* Variant of is_boilerplate: the patterns searched in the text as it is,
\* without lower-casing.
is_boilerplate_Mut(t) ==
    \E i \in 1..Len(BOILERPLATE_PATTERNS) :
        Contains(t, BOILERPLATE_PATTERNS[i])

\* is_boilerplate(text): re.search(pattern, text.lower()) for some pattern
is_boilerplate(t) ==
    \E i \in 1..Len(BOILERPLATE_PATTERNS) :
        Contains(LowerSeq(t), BOILERPLATE_PATTERNS[i])

\* \b at 0-based position i: exactly one of text[i-1], text[i] is a word
\* character (outside the text counts as a non-word character).
WordBoundary(t, i) ==
    LET before == i > 0 /\ IsWord(t[i])
        after  == i < Len(t) /\ IsWord(t[i + 1])
    IN  before # after

\* re.compile(r'\b' + re.escape(variant) + r'\b', re.IGNORECASE) at p.
MatchesAt(t, v, p) ==
    /\ p + Len(v) <= Len(t)
    /\ \A k \in 1..Len(v) : Lower(t[p + k]) = Lower(v[k])
    /\ WordBoundary(t, p)
    /\ WordBoundary(t, p + Len(v))

\* pattern.finditer(text): the non-overlapping matches, left to right.
RECURSIVE FindIter(_, _, _)
FindIter(t, v, from) ==
    IF from + Len(v) > Len(t) THEN <<>>
    ELSE IF MatchesAt(t, v, from)
         THEN <<from>> \o FindIter(t, v, from + Len(v))
         ELSE FindIter(t, v, from + 1)

\* Variant of ExtendStart: the start moves one character to the right.
ExtendStart_Mut(t, s) == Min(s + 1, Len(t))

\* while ctx_start > 0 and text[ctx_start] not in '.!?\n': ctx_start -= 1
RECURSIVE ExtendStart(_, _)
ExtendStart(t, s) ==
    IF s > 0 /\ ~IsDelim(t[s + 1]) THEN ExtendStart(t, s - 1) ELSE s

\* Variant of ExtendEnd: the end runs to the end of the text, over any
\* delimiter on the way.
ExtendEnd_Mut(t, e) == Len(t)

\* while ctx_end < len(text) and text[ctx_end] not in '.!?\n': ctx_end += 1
RECURSIVE ExtendEnd(_, _)
ExtendEnd(t, e) ==
    IF e < Len(t) /\ ~IsDelim(t[e + 1]) THEN ExtendEnd(t, e + 1) ELSE e

\* text[s:e]
Slice(t, s, e) == SubSeq(t, s + 1, e)

\* str.strip()
RECURSIVE Strip(_)
Strip(s) ==
    IF s = <<>> THEN s
    ELSE IF IsSpace(Head(s)) THEN Strip(Tail(s))
    ELSE IF IsSpace(s[Len(s)]) THEN Strip(SubSeq(s, 1, Len(s) - 1))
    ELSE s

\* Variant of CollapseWs: every whitespace character becomes a space, runs
\* are not merged.
CollapseWs_Mut(s) == [i \in 1..Len(s) |-> IF IsSpace(s[i]) THEN " " ELSE s[i]]

\* re.sub(r'\s+', ' ', context)
RECURSIVE CollapseWs(_)
CollapseWs(s) ==
    IF s = <<>> THEN s
    ELSE IF IsSpace(Head(s))
         THEN IF Len(s) > 1 /\ IsSpace(s[2])
              THEN CollapseWs(Tail(s))
              ELSE <<" ">> \o CollapseWs(Tail(s))
         ELSE <<Head(s)>> \o CollapseWs(Tail(s))

\* context[:n]
Truncate(s, n) == SubSeq(s, 1, Min(n, Len(s)))

\* The body of the inner loop for one match of variant v at pos.
MatchRecord(t, v, pos) ==
    LET s0  == Max(0, pos - context_window)
        e0  == Min(Len(t), pos + Len(v) + context_window)
        s1  == ExtendStart(t, s0)
        e1  == ExtendEnd(t, e0)
        ctx == Truncate(CollapseWs(Strip(Slice(t, s1, e1))), MAX_CONTEXT_LEN)
    IN  [ variant   |-> v,
          pos       |-> pos,
          raw_start |-> s0,
          raw_end   |-> e0,
          ctx_start |-> s1,
          ctx_end   |-> e1,
          context   |-> ctx,
          kept      |-> Len(ctx) > MIN_CONTEXT_LEN /\ ~is_boilerplate(ctx) ]

\* Every match the two nested loops visit, in the order they visit it.
RECURSIVE MatchRecords(_, _)
MatchRecords(t, vs) ==
    IF vs = <<>> THEN <<>>
    ELSE LET ps == FindIter(t, Head(vs), 0)
         IN  [i \in 1..Len(ps) |-> MatchRecord(t, Head(vs), ps[i])]
             \o MatchRecords(t, Tail(vs))

IsKept(r) == r.kept

\* extract_sentences(text, term_variants): the excerpts appended.
extract_sentences(t, vs) ==
    LET kept == SelectSeq(MatchRecords(t, vs), IsKept)
    IN  [i \in 1..Len(kept) |-> kept[i].context]

(***************************************************************************)
(* Decade labels.  get_decade formats an integer; the label is a string    *)
(* and is modelled as the sequence of its characters.                      *)
(***************************************************************************)
DigitChars == <<"0", "1", "2", "3", "4", "5", "6", "7", "8", "9">>

RECURSIVE IntToStr(_)
IntToStr(n) ==
    IF n < 0 THEN <<"-">> \o IntToStr(-n)
    ELSE IF n < 10 THEN <<DigitChars[n + 1]>>
    ELSE IntToStr(n \div 10) \o <<DigitChars[(n % 10) + 1]>>

\* Variant of get_decade: the year rounded to the nearest decade.
get_decade_Mut(year) == IntToStr(((year + 5) \div 10) * 10) \o <<"s">>

\* get_decade(year): f"{(year // 10) * 10}s"
get_decade(year) == IntToStr((year \div 10) * 10) \o <<"s">>

\* Code-point order of the characters of a decade label.
CharOrd(c) ==
    IF c = "s" THEN 10
    ELSE IF c = "-" THEN -1
    ELSE (CHOOSE d \in 1..10 : DigitChars[d] = c) - 1

\* Python's str.__lt__: lexicographic by code point, a proper prefix first.
RECURSIVE StrLess(_, _)
StrLess(x, y) ==
    IF y = <<>> THEN FALSE
    ELSE IF x = <<>> THEN TRUE
    ELSE IF CharOrd(Head(x)) # CharOrd(Head(y))
         THEN CharOrd(Head(x)) < CharOrd(Head(y))
         ELSE StrLess(Tail(x), Tail(y))

\* sorted(keys) for a set of strings.
RECURSIVE SortedStrings(_)
SortedStrings(S) ==
    IF S = {} THEN <<>>
    ELSE LET m == CHOOSE x \in S : \A y \in S \ {x} : StrLess(x, y)
         IN  <<m>> \o SortedStrings(S \ {m})

(***************************************************************************)
(* Vectors, centroids and cosine similarity.  Embeddings are integer       *)
(* vectors; a centroid (the elementwise mean) is kept exactly as the sum   *)
(* of the batch together with the batch size.  Similarities are kept in    *)
(* units of 1 / SimScale, the rounding grid of round(x, 4) scaled down.    *)
(***************************************************************************)
SimScale == 100

Dot(a, b) == a[1] * b[1] + a[2] * b[2]

Norm2(a) == Dot(a, a)

\* The integer square root of n, for lo * lo <= n < (hi + 1) * (hi + 1).
RECURSIVE ISqrtIn(_, _, _)
ISqrtIn(n, lo, hi) ==
    IF lo = hi THEN lo
    ELSE LET mid == (lo + hi + 1) \div 2
         IN  IF mid * mid <= n THEN ISqrtIn(n, mid, hi) ELSE ISqrtIn(n, lo, mid - 1)

ISqrt(n) == ISqrtIn(n, 0, 2 * SimScale)

RECURSIVE SumVec(_)
SumVec(vs) ==
    IF vs = <<>> THEN <<0, 0>>
    ELSE LET r == SumVec(Tail(vs))
         IN  <<Head(vs)[1] + r[1], Head(vs)[2] + r[2]>>

\* compute_centroid(embeddings): np.mean(embeddings, axis=0) = v / n
compute_centroid(embeddings) == [v |-> SumVec(embeddings), n |-> Len(embeddings)]

\* float(np.dot(a, b) / (np.linalg.norm(a) * np.linalg.norm(b))) for the
\* vectors a.v / a.n and b.v / b.n (the positive sizes cancel).  The value
\* is num / sqrt(den2).  A zero norm makes the quotient 0.0 / 0.0, which
\* numpy evaluates to nan with a warning; nothing is raised.
cosine_similarity(a, b) ==
    LET d == Dot(a.v, b.v)
        q == Norm2(a.v) * Norm2(b.v)
    IN  IF q = 0 THEN [raised |-> FALSE, nan |-> TRUE, num |-> 0, den2 |-> 0]
        ELSE [raised |-> FALSE, nan |-> FALSE, num |-> d, den2 |-> q]

\* round(x, 4) on the SimScale grid: the nearest multiple of 1 / SimScale;
\* round(nan, 4) is nan.
round4(x) ==
    IF x.nan THEN [nan |-> TRUE, val |-> 0]
    ELSE LET twice == ISqrt((4 * SimScale * SimScale * x.num * x.num) \div x.den2)
             r     == (twice + 1) \div 2
         IN  [nan |-> FALSE, val |-> IF x.num < 0 THEN -r ELSE r]

(***************************************************************************)
(* The corpus, the term table and the embedding model of a run.            *)
(***************************************************************************)
NDocs == 3

MAX_SAMPLE == 3

EXAMPLES_PER_DOC == 2

EXAMPLES_PER_DECADE == 3

EXAMPLE_TEXT_LEN == 3

TITLE_LEN == 2

Years == {995, 1003, 1012}

\* A text with a single excerpt for TermA and none for TermB.
ShortText == <<"+", " ", "a">>

\* Texts with two excerpts for TermA and one for TermB.
DocTexts ==
    { <<"a", ".", "b", " ", "a">>,
      <<".", "b", " ", "a", " ", "a">> }

Titles == << <<"x">>, <<"x", "y">>, <<"x", "y", "z">>, <<"z", "y", "x", "w">> >>

\* A metadata entry.  Its file is read ("ok") or not ("unreadable": no
\* local_path, no file at either place looked at, or a read that fails;
\* text is then what a read would have delivered had it gone through).  An
\* entry may lack a usable "year" (has_year is FALSE: the key is missing or
\* its value is not a number; the year field is then a placeholder).
DocChoices ==
    [year : Years, has_year : {TRUE}, file : {"ok"}, text : DocTexts]
        \cup [year : {1012}, has_year : {TRUE}, file : {"ok"},
              text : {ShortText}]
        \cup [year : {0}, has_year : {FALSE}, file : {"ok"},
              text : {ShortText}]
        \cup [year : {995}, has_year : {TRUE}, file : {"unreadable"},
              text : {<<"a", ".", "b", " ", "a">>}]

TermA == <<"a">>

TermB == <<"b">>

TermLists == { <<TermB, TermA>>, <<TermA>> }

\* TERM_VARIANTS: TermA has an entry, TermB has none.
TERM_VARIANTS == (TermA :> << <<"a">>, <<"a", "+">> >>)

\* Variant of VariantsOf: a term without an entry gets no variant at all.
VariantsOf_Mut(t) == IF t \in DOMAIN TERM_VARIANTS THEN TERM_VARIANTS[t] ELSE <<>>

\* TERM_VARIANTS.get(term, [term])
VariantsOf(t) == IF t \in DOMAIN TERM_VARIANTS THEN TERM_VARIANTS[t] ELSE <<t>>

SeqToSet(s) == {s[i] : i \in 1..Len(s)}

EmbedVecs == { <<1, 0>>, <<0, 1>>, <<-1, 0>> }

(***************************************************************************)
(* State.                                                                  *)
(***************************************************************************)
VARIABLES
    \* one call of extract_sentences
    text,               \* the document text
    term_variants,      \* the variant list
    matches,            \* the matches visited by the call, with their windows
    contexts,           \* the list returned
    xpc,                \* "idle", "ready" before the call, "done" after it
    \* one call of cosine_similarity
    cos_a, cos_b,       \* the arguments
    cos_result,         \* the value returned
    cpc,                \* "idle", "ready", "done"
    \* one call of get_decade
    dec_year,           \* the argument
    dec_label,          \* the label returned
    dpc,                \* "idle", "ready", "done"
    \* one run of analyze_semantic_drift
    metadata,           \* load_metadata(): the documents, in file order
    terms,              \* the terms asked for
    model,              \* the embedding model: excerpt -> vector, as far as
                        \* the run has seen it (an excerpt embedded again
                        \* gets the same vector)
    pc,                 \* "idle", "begin", "scan", "embed", "drift", "write",
                        \* "done", "aborted"
    termIdx,            \* index of the current term in terms
    term,               \* the current term
    variants,           \* its variants
    docIdx,             \* index of the next document of the scan
    contexts_by_decade, \* decade label -> excerpts, in scan order
    decade_keys,        \* the keys of contexts_by_decade in insertion order
    example_sentences,  \* decade label -> examples
    all_decades,        \* set of decade labels seen by any term
    embedIdx,           \* index in decade_keys of the next decade to embed
    centroids,          \* decade label -> centroid
    encode_calls,       \* the batches handed to model.encode for this term
    results_terms,      \* results["terms"]: term -> report
    timeline,           \* results["timeline"]
    written,            \* the output file has been written
    failure             \* the exception that ended the run, or "none"

xvars == <<text, term_variants, matches, contexts, xpc>>

cvars == <<cos_a, cos_b, cos_result, cpc>>

dvars == <<dec_year, dec_label, dpc>>

inputs == <<metadata, terms, model>>

pvars == <<metadata, terms, model, pc, termIdx, term, variants, docIdx,
           contexts_by_decade, decade_keys, example_sentences, all_decades,
           embedIdx, centroids, encode_calls, results_terms, timeline,
           written, failure>>

vars == <<xvars, cvars, dvars, pvars>>

Empty == <<>>

XIdle ==
    /\ text = <<>>
    /\ term_variants = <<>>
    /\ matches = <<>>
    /\ contexts = <<>>
    /\ xpc = "idle"

CIdle ==
    /\ cos_a = <<0, 0>>
    /\ cos_b = <<0, 0>>
    /\ cos_result = [raised |-> FALSE, nan |-> FALSE, num |-> 0, den2 |-> 0]
    /\ cpc = "idle"

DIdle ==
    /\ dec_year = 0
    /\ dec_label = <<>>
    /\ dpc = "idle"

PStart(p) ==
    /\ pc = p
    /\ termIdx = 1
    /\ term = <<>>
    /\ variants = <<>>
    /\ docIdx = 1
    /\ contexts_by_decade = Empty
    /\ decade_keys = <<>>
    /\ example_sentences = Empty
    /\ all_decades = {}
    /\ embedIdx = 1
    /\ centroids = Empty
    /\ encode_calls = <<>>
    /\ results_terms = Empty
    /\ timeline = <<>>
    /\ written = FALSE
    /\ failure = "none"

PIdle ==
    /\ metadata = <<>>
    /\ terms = <<>>
    /\ model = <<>>
    /\ PStart("idle")

(***************************************************************************)
(* extract_sentences as a specification of its own.                        *)
(***************************************************************************)
InitExtract ==
    /\ text \in Texts
    /\ term_variants \in VariantLists
    /\ matches = <<>>
    /\ contexts = <<>>
    /\ xpc = "ready"
    /\ CIdle
    /\ DIdle
    /\ PIdle

ExtractSentences ==
    /\ xpc = "ready"
    /\ matches' = MatchRecords(text, term_variants)
    /\ contexts' = extract_sentences(text, term_variants)
    /\ xpc' = "done"
    /\ UNCHANGED <<text, term_variants, cvars, dvars, pvars>>

NextExtract == ExtractSentences

SpecExtract == InitExtract /\ [][NextExtract]_vars

(***************************************************************************)
(* cosine_similarity as a specification of its own.                        *)
(***************************************************************************)
MaxComp == 2

CosVecs == (-MaxComp..MaxComp) \X (-MaxComp..MaxComp)

InitCosine ==
    /\ cos_a \in CosVecs
    /\ cos_b \in CosVecs
    /\ cos_result = [raised |-> FALSE, nan |-> FALSE, num |-> 0, den2 |-> 0]
    /\ cpc = "ready"
    /\ XIdle
    /\ DIdle
    /\ PIdle

CosineSimilarity ==
    /\ cpc = "ready"
    /\ cos_result' = cosine_similarity([v |-> cos_a, n |-> 1], [v |-> cos_b, n |-> 1])
    /\ cpc' = "done"
    /\ UNCHANGED <<cos_a, cos_b, xvars, dvars, pvars>>

NextCosine == CosineSimilarity

SpecCosine == InitCosine /\ [][NextCosine]_vars

(***************************************************************************)
(* get_decade as a specification of its own.  The years lie within         *)
(* YearSpan of the year 0, of a change in the number of digits and of the  *)
(* 1800s and 1890s.                                                        *)
(***************************************************************************)
YearSpan == 12

YearCentres == {0, 1000, 1800, 1890}

DecadeYears == UNION {(c - YearSpan)..(c + YearSpan) : c \in YearCentres}

InitDecade ==
    /\ dec_year \in DecadeYears
    /\ dec_label = <<>>
    /\ dpc = "ready"
    /\ XIdle
    /\ CIdle
    /\ PIdle

GetDecade ==
    /\ dpc = "ready"
    /\ dec_label' = get_decade(dec_year)
    /\ dpc' = "done"
    /\ UNCHANGED <<dec_year, xvars, cvars, pvars>>

NextDecade == GetDecade

SpecDecade == InitDecade /\ [][NextDecade]_vars

(***************************************************************************)
(* analyze_semantic_drift(terms).                                          *)
(***************************************************************************)
Init ==
    /\ metadata \in [1..NDocs -> DocChoices]
    /\ terms \in TermLists
    /\ model = Empty
    /\ PStart("begin")
    /\ XIdle
    /\ CIdle
    /\ DIdle

\* d.get(k, []) of a dict of lists
GetList(d, k) == IF k \in DOMAIN d THEN d[k] ELSE <<>>

\* d[k] = v
Put(d, k, v) == (k :> v) @@ d

\* The example stored for excerpt ctx of document i.
Example(ctx, i) ==
    [ text   |-> Truncate(ctx, EXAMPLE_TEXT_LEN)
                   \o (IF Len(ctx) > EXAMPLE_TEXT_LEN THEN <<".", ".", ".">> ELSE <<>>),
      year   |-> metadata[i].year,
      title  |-> Truncate(Titles[i], TITLE_LEN),
      doc_id |-> i ]

\* Variant of AddExamples: no limit per decade.
AddExamples_Mut(exs, cs, i) == exs \o [k \in 1..Len(cs) |-> Example(cs[k], i)]

\* for ctx in contexts[:3]: if len(example_sentences[decade]) < 5: append
RECURSIVE AddExamples(_, _, _)
AddExamples(exs, cs, i) ==
    IF cs = <<>> THEN exs
    ELSE AddExamples(IF Len(exs) < EXAMPLES_PER_DECADE
                     THEN Append(exs, Example(Head(cs), i)) ELSE exs,
                     Tail(cs), i)

\* Variant of FreshBuckets: the buckets of the previous term are kept.
FreshBuckets_Mut == contexts_by_decade

\* contexts_by_decade = defaultdict(list) (line 192)
FreshBuckets == Empty

\* for term in terms: the head of one iteration (lines 183-193)
BeginTerm ==
    /\ pc = "begin"
    /\ termIdx <= Len(terms)
    /\ term' = terms[termIdx]
    /\ variants' = VariantsOf(terms[termIdx])
    /\ contexts_by_decade' = FreshBuckets
    /\ decade_keys' = <<>>
    /\ example_sentences' = Empty
    /\ docIdx' = 1
    /\ pc' = "scan"
    /\ UNCHANGED <<inputs, termIdx, all_decades, embedIdx, centroids,
                   encode_calls, results_terms, timeline, written, failure,
                   xvars, cvars, dvars>>

\* Variant of Readable: a read that fails is taken to deliver the text.
Readable_Mut(doc) == doc.file \in {"ok", "unreadable"}

\* The guards of lines 196-211: local_path is set, the file exists at one of
\* the two places and read_text returns.
Readable(doc) == doc.file = "ok"

\* for doc in metadata: one iteration (lines 195-228).  doc["year"] is read
\* only for a document that yielded excerpts.
ScanDoc ==
    /\ pc = "scan"
    /\ docIdx <= Len(metadata)
    /\ LET doc == metadata[docIdx]
           cs  == extract_sentences(doc.text, variants)
           dec == get_decade(doc.year)
       IN  IF ~Readable(doc) \/ cs = <<>>
           THEN UNCHANGED <<contexts_by_decade, decade_keys, example_sentences,
                            all_decades>>
           ELSE /\ doc.has_year
                /\ all_decades' = all_decades \cup {dec}
                /\ contexts_by_decade' =
                       Put(contexts_by_decade, dec,
                           GetList(contexts_by_decade, dec) \o cs)
                /\ decade_keys' = IF dec \in DOMAIN contexts_by_decade
                                  THEN decade_keys
                                  ELSE Append(decade_keys, dec)
                /\ example_sentences' =
                       Put(example_sentences, dec,
                           AddExamples(GetList(example_sentences, dec),
                                       Truncate(cs, EXAMPLES_PER_DOC), docIdx))
    /\ docIdx' = docIdx + 1
    /\ UNCHANGED <<inputs, pc, termIdx, term, variants, embedIdx, centroids,
                   encode_calls, results_terms, timeline, written, failure,
                   xvars, cvars, dvars>>

\* get_decade(doc["year"]) raises (line 216): KeyError for a missing key,
\* TypeError for a value that is not a number; nothing catches it.
YearRaises ==
    /\ pc = "scan"
    /\ docIdx <= Len(metadata)
    /\ LET doc == metadata[docIdx]
       IN  /\ Readable(doc)
           /\ extract_sentences(doc.text, variants) # <<>>
           /\ ~doc.has_year
    /\ pc' = "aborted"
    /\ failure' = "year"
    /\ UNCHANGED <<inputs, termIdx, term, variants, docIdx, contexts_by_decade,
                   decade_keys, example_sentences, all_decades, embedIdx,
                   centroids, encode_calls, results_terms, timeline, written,
                   xvars, cvars, dvars>>

\* The scan is over (lines 230-236): centroids = {}
EndScan ==
    /\ pc = "scan"
    /\ docIdx > Len(metadata)
    /\ centroids' = Empty
    /\ encode_calls' = <<>>
    /\ embedIdx' = 1
    /\ pc' = "embed"
    /\ UNCHANGED <<inputs, termIdx, term, variants, docIdx, contexts_by_decade,
                   decade_keys, example_sentences, all_decades, results_terms,
                   timeline, written, failure, xvars, cvars, dvars>>

MIN_CONTEXTS == 2

\* Variant of TooFew: the threshold off by one, one excerpt is enough.
TooFew_Mut(cs) == Len(cs) < MIN_CONTEXTS - 1

\* len(contexts) < 2 (line 239)
TooFew(cs) == Len(cs) < MIN_CONTEXTS

\* if len(contexts) < 2: continue (lines 238-240)
SkipDecade ==
    /\ pc = "embed"
    /\ embedIdx <= Len(decade_keys)
    /\ TooFew(contexts_by_decade[decade_keys[embedIdx]])
    /\ embedIdx' = embedIdx + 1
    /\ UNCHANGED <<inputs, pc, termIdx, term, variants, docIdx,
                   contexts_by_decade, decade_keys, example_sentences,
                   all_decades, centroids, encode_calls, results_terms,
                   timeline, written, failure, xvars, cvars, dvars>>

\* Variant of Sample: no cap, the whole bucket is embedded.
Sample_All(cs) == cs

\* Variant of Sample: the last MAX_SAMPLE excerpts instead of the first.
Sample_Mut(cs) == SubSeq(cs, Max(1, Len(cs) - MAX_SAMPLE + 1), Len(cs))

\* contexts[:100]
Sample(cs) == Truncate(cs, MAX_SAMPLE)

\* model.encode(batch) when it returns, for the embedding function m
Encode(m, batch) == [i \in 1..Len(batch) |-> m[batch[i]]]

\* One decade is embedded (lines 242-248).
EmbedDecade ==
    /\ pc = "embed"
    /\ embedIdx <= Len(decade_keys)
    /\ LET dec   == decade_keys[embedIdx]
           batch == Sample(contexts_by_decade[dec])
       IN  /\ ~TooFew(contexts_by_decade[dec])
           /\ encode_calls' = Append(encode_calls, [decade |-> dec, batch |-> batch])
           /\ \E fresh \in [SeqToSet(batch) \ DOMAIN model -> EmbedVecs] :
                  model' = fresh @@ model
           /\ centroids' = Put(centroids, dec, compute_centroid(Encode(model', batch)))
    /\ embedIdx' = embedIdx + 1
    /\ UNCHANGED <<metadata, terms, pc, termIdx, term, variants, docIdx,
                   contexts_by_decade, decade_keys, example_sentences,
                   all_decades, results_terms, timeline, written, failure,
                   xvars, cvars, dvars>>

\* model.encode raises (line 245): nothing catches it, the run ends.
EncodeRaises ==
    /\ pc = "embed"
    /\ embedIdx <= Len(decade_keys)
    /\ LET dec   == decade_keys[embedIdx]
           batch == Sample(contexts_by_decade[dec])
       IN  /\ ~TooFew(contexts_by_decade[dec])
           /\ encode_calls' = Append(encode_calls, [decade |-> dec, batch |-> batch])
    /\ pc' = "aborted"
    /\ failure' = "encode"
    /\ UNCHANGED <<inputs, termIdx, term, variants, docIdx, contexts_by_decade,
                   decade_keys, example_sentences, all_decades, embedIdx,
                   centroids, results_terms, timeline, written, xvars, cvars, dvars>>

\* sorted(centroids.keys())
SortedDecades(cents) == SortedStrings(DOMAIN cents)

\* Variant of ReferenceDecade: the last decade taken as the reference.
ReferenceDecade_Mut(sorted) == sorted[Len(sorted)]

\* reference_centroid = centroids[sorted_decades[0]]
ReferenceDecade(sorted) == sorted[1]

\* The records appended by lines 255-265.
OriginRecords(cents, buckets, exs, sorted) ==
    [ i \in 1..Len(sorted) |->
        [ decade               |-> sorted[i],
          similarity_to_origin |->
              round4(cosine_similarity(cents[sorted[i]],
                                       cents[ReferenceDecade(sorted)])),
          num_contexts         |-> Len(buckets[sorted[i]]),
          examples             |-> GetList(exs, sorted[i]) ] ]

\* Variant of PrevDecade: every decade compared with the first one.
PrevDecade_Mut(sorted, i) == sorted[1]

\* prev_decade = sorted_decades[i-1] (line 269), i 1-based here
PrevDecade(sorted, i) == sorted[i - 1]

\* for i in range(1, len(sorted_decades)) (lines 268-275), from index i on
RECURSIVE AddPrevious(_, _, _, _)
AddPrevious(drift, cents, sorted, i) ==
    IF i > Len(sorted) THEN drift
    ELSE LET sim == round4(cosine_similarity(cents[PrevDecade(sorted, i)],
                                             cents[sorted[i]]))
             upd == [ k \in 1..Len(drift) |->
                        IF drift[k].decade = sorted[i]
                        THEN ("similarity_to_previous" :> sim) @@ drift[k]
                        ELSE drift[k] ]
         IN  AddPrevious(upd, cents, sorted, i + 1)

DriftData(cents, buckets, exs) ==
    LET sorted == SortedDecades(cents)
    IN  AddPrevious(OriginRecords(cents, buckets, exs, sorted), cents, sorted, 2)

\* Variant of TotalContexts: only the buckets that get a centroid count.
RECURSIVE TotalContexts_Mut(_, _)
TotalContexts_Mut(buckets, keys) ==
    IF keys = <<>> THEN 0
    ELSE (IF Len(buckets[Head(keys)]) >= 2 THEN Len(buckets[Head(keys)]) ELSE 0)
             + TotalContexts_Mut(buckets, Tail(keys))

\* sum(len(c) for c in contexts_by_decade.values()) (line 279)
RECURSIVE TotalContexts(_, _)
TotalContexts(buckets, keys) ==
    IF keys = <<>> THEN 0
    ELSE Len(buckets[Head(keys)]) + TotalContexts(buckets, Tail(keys))

\* Variant of StoreReport: a term without any excerpt gets no report.
StoreReport_Mut(res, t, rep) ==
    IF rep.total_contexts = 0 THEN res ELSE Put(res, t, rep)

\* results["terms"][term] = {...} (lines 277-282)
StoreReport(res, t, rep) == Put(res, t, rep)

\* The embedding loop is over: drift metrics and the term's report
\* (lines 250-284).
ComputeDrift ==
    /\ pc = "embed"
    /\ embedIdx > Len(decade_keys)
    /\ results_terms' =
           StoreReport(results_terms, term,
               [ variants        |-> variants,
                 total_contexts  |-> TotalContexts(contexts_by_decade, decade_keys),
                 decades_covered |-> Cardinality(DOMAIN centroids),
                 drift           |-> DriftData(centroids, contexts_by_decade,
                                               example_sentences) ])
    /\ termIdx' = termIdx + 1
    /\ pc' = "begin"
    /\ UNCHANGED <<inputs, term, variants, docIdx, contexts_by_decade,
                   decade_keys, example_sentences, all_decades, embedIdx,
                   centroids, encode_calls, timeline, written, failure,
                   xvars, cvars, dvars>>

\* All terms are done: the timeline and the output file (lines 286-298).
WriteOutput ==
    /\ pc = "begin"
    /\ termIdx > Len(terms)
    /\ timeline' = SortedStrings(all_decades)
    /\ written' = TRUE
    /\ pc' = "done"
    /\ UNCHANGED <<inputs, termIdx, term, variants, docIdx, contexts_by_decade,
                   decade_keys, example_sentences, all_decades, embedIdx,
                   centroids, encode_calls, results_terms, failure,
                   xvars, cvars, dvars>>

Next ==
    \/ BeginTerm
    \/ ScanDoc
    \/ YearRaises
    \/ EndScan
    \/ SkipDecade
    \/ EmbedDecade
    \/ EncodeRaises
    \/ ComputeDrift
    \/ WriteOutput

Spec == Init /\ [][Next]_vars

(***************************************************************************)
(* Properties.                                                             *)
(***************************************************************************)

\* Variant v occurs in c at 0-based position p, in any letter case, with no
\* word character immediately before or after it.
WholeWordAt(c, v, p) ==
    /\ p + Len(v) <= Len(c)
    /\ \A k \in 1..Len(v) : Lower(c[p + k]) = Lower(v[k])
    /\ (p = 0 \/ ~IsWord(c[p]))
    /\ (p + Len(v) = Len(c) \/ ~IsWord(c[p + Len(v) + 1]))

\* The excerpt c still holds a match of the pattern of some variant of vs.
HasWholeWord(c, vs) ==
    \E k \in 1..Len(vs) : \E p \in 0..Len(c) : MatchesAt(c, vs[k], p)

\* C1: every excerpt returned by extract_sentences contains a whole-word,
\* case-insensitive match of some variant of the list.
C1_ExcerptHasWholeWordMatch ==
    xpc = "done" =>
        \A i \in 1..Len(contexts) : HasWholeWord(contexts[i], term_variants)

\* C2: an excerpt is produced for an occurrence of a variant only when no
\* word character immediately precedes or follows the occurrence.
C2_OnlyWholeWordOccurrences ==
    xpc = "done" =>
        \A i \in 1..Len(matches) :
            matches[i].kept =>
                WholeWordAt(text, matches[i].variant, matches[i].pos)

\* The report of the current term has just been stored and the term's
\* buckets and centroids are still in place.
TermFinished == pc \in {"begin", "done"} /\ termIdx > 1

DriftDecades(t) ==
    {results_terms[t].drift[i].decade : i \in 1..Len(results_terms[t].drift)}

\* C3: a decade whose bucket holds fewer than 2 excerpts has no centroid and
\* no drift record; a decade with exactly 2 excerpts has both.
C3_CentroidNeedsTwoContexts ==
    TermFinished =>
        \A d \in DOMAIN contexts_by_decade :
            /\ Len(contexts_by_decade[d]) < 2 =>
                   d \notin DOMAIN centroids /\ d \notin DriftDecades(term)
            /\ Len(contexts_by_decade[d]) = 2 =>
                   d \in DOMAIN centroids /\ d \in DriftDecades(term)

C3_Witness ==
    /\ TermFinished
    /\ \E d \in DOMAIN contexts_by_decade :
           Len(contexts_by_decade[d]) = 1 /\ d \notin DriftDecades(term)
    /\ \E d \in DOMAIN contexts_by_decade :
           Len(contexts_by_decade[d]) = 2 /\ d \in DriftDecades(term)

One == [nan |-> FALSE, val |-> SimScale]

\* C4: in every non-empty drift list the record of the reference decade has
\* similarity_to_origin 1.0.
C4_ReferenceSimilarityIsOne ==
    \A t \in DOMAIN results_terms :
        results_terms[t].drift # <<>> =>
            results_terms[t].drift[1].similarity_to_origin = One

\* The number a decade label stands for.
RECURSIVE StrToInt(_)
StrToInt(s) ==
    IF s = <<>> THEN 0
    ELSE 10 * StrToInt(SubSeq(s, 1, Len(s) - 1)) + CharOrd(s[Len(s)])

DecadeNum(label) == StrToInt(SubSeq(label, 1, Len(label) - 1))

\* C5: the decades of a drift list are strictly increasing in numeric order.
C5_DriftDecadesIncreasing ==
    \A t \in DOMAIN results_terms :
        \A i, j \in 1..Len(results_terms[t].drift) :
            i < j => DecadeNum(results_terms[t].drift[i].decade)
                         < DecadeNum(results_terms[t].drift[j].decade)

\* C6: the reference decade is the chronologically earliest decade that has
\* a centroid.
C6_ReferenceIsEarliest ==
    (TermFinished /\ DOMAIN centroids # {}) =>
        \A d \in DOMAIN centroids :
            DecadeNum(results_terms[term].drift[1].decade) <= DecadeNum(d)

HasPrevious(r) == "similarity_to_previous" \in DOMAIN r

\* C7: the first record of a drift list has no similarity_to_previous; every
\* later record has one, the (rounded) cosine similarity of its centroid and
\* the centroid of the record just before it in the list.
C7_PreviousIsListPredecessor ==
    /\ \A t \in DOMAIN results_terms :
           LET drift == results_terms[t].drift
           IN  \A i \in 1..Len(drift) : HasPrevious(drift[i]) <=> i > 1
    /\ TermFinished =>
           LET drift == results_terms[term].drift
           IN  \A i \in 2..Len(drift) :
                   drift[i].similarity_to_previous =
                       round4(cosine_similarity(centroids[drift[i].decade],
                                                centroids[drift[i - 1].decade]))

C7_Witness ==
    /\ TermFinished
    /\ Len(results_terms[term].drift) = 3
    /\ ~HasPrevious(results_terms[term].drift[1])
    /\ results_terms[term].drift[3].similarity_to_previous
           # results_terms[term].drift[3].similarity_to_origin

\* C8: with at least two records, the second record's similarity_to_previous
\* equals its similarity_to_origin.
C8_SecondPreviousEqualsOrigin ==
    \A t \in DOMAIN results_terms :
        LET drift == results_terms[t].drift
        IN  Len(drift) >= 2 =>
                drift[2].similarity_to_previous = drift[2].similarity_to_origin

\* The 1850/1860/1950 scenario: three decades with excerpts, one of them
\* excluded for its single excerpt, and two records with a similarity that
\* is neither 1.0 nor nan.
C8_Witness ==
    /\ TermFinished
    /\ Len(results_terms[term].drift) = 2
    /\ ~results_terms[term].drift[2].similarity_to_origin.nan
    /\ results_terms[term].drift[2].similarity_to_origin # One
    /\ results_terms[term].drift[2].similarity_to_previous
           = results_terms[term].drift[2].similarity_to_origin
    /\ \E d \in DOMAIN contexts_by_decade :
           Len(contexts_by_decade[d]) = 1 /\ d \notin DriftDecades(term)

\* C9: a failed embedding call does not end the run.
C9_EncodeFailureIsIsolated == failure = "encode" => pc # "aborted"

\* C10: cosine_similarity raises whenever one of its arguments has zero norm.
C10_ZeroNormRaises ==
    (cpc = "done" /\ (Norm2(cos_a) = 0 \/ Norm2(cos_b) = 0)) => cos_result.raised

NoNan(r) ==
    /\ ~r.similarity_to_origin.nan
    /\ HasPrevious(r) => ~r.similarity_to_previous.nan

\* C11: when a centroid has zero norm, the similarity values that involve it
\* are left out of the report: no drift record carries a similarity that is
\* not a number, and the run does not abort.
C11_ZeroNormSimilarityLeftOut ==
    /\ \A t \in DOMAIN results_terms :
           \A i \in 1..Len(results_terms[t].drift) :
               NoNan(results_terms[t].drift[i])
    /\ (TermFinished /\ \E d \in DOMAIN centroids : Norm2(centroids[d].v) = 0)
           => pc # "aborted"

\* C12: a document without a resolvable year is skipped without an error,
\* also when its text holds occurrences of the term: the run is never ended
\* by the reading of a year.
C12_MissingYearIsSkipped == failure # "year"

\* C13: a document whose file is absent or cannot be read contributes no
\* context to any decade, and the scan goes on with the next document.
C13_UnreadableFileIsSkipped ==
    [][(pc = "scan" /\ docIdx <= Len(metadata)
            /\ metadata[docIdx].file # "ok")
        => /\ contexts_by_decade' = contexts_by_decade
           /\ example_sentences' = example_sentences
           /\ all_decades' = all_decades
           /\ docIdx' = docIdx + 1
           /\ pc' = "scan"
           /\ failure' = "none"]_vars

\* A document that is not read, whose text holds the term, has just been
\* passed after a document that contributed, and the scan is still running.
C13_Witness ==
    /\ pc = "scan"
    /\ docIdx = 3
    /\ failure = "none"
    /\ metadata[2].file = "unreadable"
    /\ extract_sentences(metadata[2].text, variants) # <<>>
    /\ TotalContexts(contexts_by_decade, decade_keys)
           = Len(extract_sentences(metadata[1].text, variants))
    /\ contexts_by_decade # Empty

\* The boilerplate phrase pat occurs in c at 0-based position p, whatever
\* the letter case of c.
PhraseAt(c, pat, p) ==
    /\ p + Len(pat) <= Len(c)
    /\ \A k \in 1..Len(pat) : c[p + k] = pat[k] \/ Lower(c[p + k]) = pat[k]

HasPhrase(c) ==
    \E i \in 1..Len(BOILERPLATE_PATTERNS) :
        \E p \in 0..Len(c) : PhraseAt(c, BOILERPLATE_PATTERNS[i], p)

\* C14: no excerpt returned by extract_sentences contains a boilerplate
\* phrase in any letter case, and an occurrence is dropped for boilerplate
\* exactly when its excerpt contains such a phrase.
C14_NoBoilerplateExcerpt ==
    xpc = "done" =>
        /\ \A i \in 1..Len(contexts) : ~HasPhrase(contexts[i])
        /\ \A i \in 1..Len(matches) :
               matches[i].kept <=>
                   (Len(matches[i].context) > MIN_CONTEXT_LEN
                        /\ ~HasPhrase(matches[i].context))

\* An occurrence whose excerpt is long enough and still shows the variant is
\* dropped because the excerpt holds the phrase in upper case.
C14_Witness ==
    /\ xpc = "done"
    /\ \E i \in 1..Len(matches) :
           /\ ~matches[i].kept
           /\ Len(matches[i].context) > MIN_CONTEXT_LEN
           /\ HasWholeWord(matches[i].context, term_variants)
           /\ \E p \in 0..Len(matches[i].context) :
                  /\ PhraseAt(matches[i].context, BOILERPLATE_PATTERNS[1], p)
                  /\ matches[i].context[p + 1] = "A"

\* The integer a string of digits with an optional leading "-" stands for.
ParseInt(s) == IF Head(s) = "-" THEN -StrToInt(Tail(s)) ELSE StrToInt(s)

\* s is the decimal form Python prints for an integer: digits only after an
\* optional "-", no leading zero, no "-0".
IsDecimal(s) ==
    LET digits == IF s # <<>> /\ Head(s) = "-" THEN Tail(s) ELSE s
    IN  /\ digits # <<>>
        /\ \A i \in 1..Len(digits) : digits[i] \in SeqToSet(DigitChars)
        /\ Len(digits) > 1 => digits[1] # "0"
        /\ digits = <<"0">> => s = digits

\* C15: get_decade(year) is the decimal form of floor(year / 10) * 10, the
\* largest multiple of 10 not above the year, followed by "s"; 1887 gives
\* "1880s", 1900 gives "1900s" and 1799 gives "1790s".
C15_DecadeLabel ==
    dpc = "done" =>
        LET num == SubSeq(dec_label, 1, Len(dec_label) - 1)
        IN  /\ Len(dec_label) >= 2
            /\ dec_label[Len(dec_label)] = "s"
            /\ IsDecimal(num)
            /\ ParseInt(num) % 10 = 0
            /\ ParseInt(num) <= dec_year
            /\ dec_year < ParseInt(num) + 10
            /\ dec_year = 1887 => dec_label = <<"1", "8", "8", "0", "s">>
            /\ dec_year = 1900 => dec_label = <<"1", "9", "0", "0", "s">>
            /\ dec_year = 1799 => dec_label = <<"1", "7", "9", "0", "s">>

\* The label of 1887 has been computed.
C15_Witness ==
    dpc = "done" /\ dec_year = 1887 /\ dec_label = <<"1", "8", "8", "0", "s">>

\* The occurrences whose excerpts are returned, in the order of the list
\* returned.
KeptMatches == SelectSeq(matches, IsKept)

\* C16: the excerpts are returned in document order: of two returned
\* excerpts, the one whose occurrence starts earlier in the text comes first,
\* whichever variants matched.
C16_ExcerptsInDocumentOrder ==
    xpc = "done" =>
        \A i, j \in 1..Len(KeptMatches) :
            i < j => KeptMatches[i].pos <= KeptMatches[j].pos

\* C17: an occurrence of the term whose excerpt passes the filters yields
\* exactly one excerpt, never more, whatever the variant list: no two
\* returned excerpts stem from the same position of the text.
C17_OneExcerptPerOccurrence ==
    xpc = "done" =>
        \A i, j \in 1..Len(KeptMatches) :
            KeptMatches[i].pos = KeptMatches[j].pos => i = j

(***************************************************************************)
(* The report of a term written as a function of the term's variants vs,   *)
(* the corpus docs and the embedding function m, and of nothing else.      *)
(***************************************************************************)

\* extract_sentences tabulated over the texts of the corpus and the variant
\* lists of the terms.
ExcerptTable ==
    [ t \in {d.text : d \in DocChoices},
      vs \in {VariantsOf(x) : x \in UNION {SeqToSet(l) : l \in TermLists}} |->
        extract_sentences(t, vs) ]

\* The excerpts each document contributes for vs, in file order.
DocContexts(vs, docs) ==
    [ i \in 1..Len(docs) |->
        IF docs[i].file = "ok" THEN ExcerptTable[docs[i].text, vs] ELSE <<>> ]

\* The decade label of each document.
DocLabels(docs) == [i \in 1..Len(docs) |-> get_decade(docs[i].year)]

\* The decades in which the term has at least one excerpt; cs is
\* DocContexts(vs, docs) and labels is DocLabels(docs).
DecadesFrom(cs, labels) == {labels[i] : i \in {j \in 1..Len(cs) : cs[j] # <<>>}}

DecadesOf(vs, docs) == DecadesFrom(DocContexts(vs, docs), DocLabels(docs))

RECURSIVE Concat(_)
Concat(ss) == IF ss = <<>> THEN <<>> ELSE Head(ss) \o Concat(Tail(ss))

\* The excerpts of decade d, document after document.
BucketFrom(cs, labels, d) ==
    Concat([i \in 1..Len(cs) |-> IF labels[i] = d THEN cs[i] ELSE <<>>])

\* The examples of decade d: the first excerpts of each document, as long
\* as the decade has room.
ExamplesFrom(cs, labels, d) ==
    LET all == Concat([ i \in 1..Len(cs) |->
                          IF labels[i] = d
                          THEN [ k \in 1..Min(EXAMPLES_PER_DOC, Len(cs[i])) |->
                                   Example(cs[i][k], i) ]
                          ELSE <<>> ])
    IN  SubSeq(all, 1, Min(EXAMPLES_PER_DECADE, Len(all)))

\* Component c of the sum of the vectors of the first n excerpts of b.
RECURSIVE SumOver(_, _, _, _)
SumOver(b, m, n, c) ==
    IF n = 0 THEN 0 ELSE m[b[n]][c] + SumOver(b, m, n - 1, c)

\* The centroid of a bucket b: the sum of the vectors of its first
\* MAX_SAMPLE excerpts, and their number.
CentroidFrom(b, m) ==
    LET n == Min(MAX_SAMPLE, Len(b))
    IN  [v |-> <<SumOver(b, m, n, 1), SumOver(b, m, n, 2)>>, n |-> n]

\* The buckets of the term and its decades with two or more excerpts, in
\* the order in which Python sorts their labels.
BucketsOf(vs, docs) ==
    LET cs      == DocContexts(vs, docs)
        labels  == DocLabels(docs)
        decades == DecadesFrom(cs, labels)
        bucket  == [d \in decades |-> BucketFrom(cs, labels, d)]
    IN  [ cs     |-> cs,
          labels |-> labels,
          bucket |-> bucket,
          sorted |-> SortedStrings({d \in decades : Len(bucket[d]) >= 2}) ]

\* The first MAX_SAMPLE excerpts of every bucket of two or more excerpts
\* have a vector under m; bs is BucketsOf(vs, docs).
Embedded(bs, m) ==
    \A i \in 1..Len(bs.sorted) :
        \A k \in 1..Min(MAX_SAMPLE, Len(bs.bucket[bs.sorted[i]])) :
            bs.bucket[bs.sorted[i]][k] \in DOMAIN m

\* The decade and the similarity values of every drift record of the term.
SimilaritiesFrom(bs, m) ==
    LET cent == [ i \in 1..Len(bs.sorted) |->
                    CentroidFrom(bs.bucket[bs.sorted[i]], m) ]
    IN  [ i \in 1..Len(bs.sorted) |->
            << bs.sorted[i],
               round4(cosine_similarity(cent[i], cent[1])),
               IF i = 1 THEN <<>>
               ELSE <<round4(cosine_similarity(cent[i - 1], cent[i]))>> >> ]

ReportFrom(vs, bs, m) ==
    LET sims == SimilaritiesFrom(bs, m)
    IN  [ variants        |-> vs,
          total_contexts  |-> Len(Concat(bs.cs)),
          decades_covered |-> Len(bs.sorted),
          drift           |->
              [ i \in 1..Len(bs.sorted) |->
                  LET base == [ decade               |-> sims[i][1],
                                similarity_to_origin |-> sims[i][2],
                                num_contexts         |->
                                    Len(bs.bucket[bs.sorted[i]]),
                                examples             |->
                                    ExamplesFrom(bs.cs, bs.labels, bs.sorted[i]) ]
                  IN  IF i = 1 THEN base
                      ELSE ("similarity_to_previous" :> sims[i][3][1]) @@ base ] ]

\* C19: the report of a term is a function of the term's variants and the
\* corpus (and the embedding function): when the term has just been
\* finished its report is the same whichever terms were analysed before it,
\* and its reference decade is one of the term's own decades.
C19_ReportDependsOnOwnTermOnly ==
    (pc = "begin" /\ termIdx > 1) =>
        LET bs == BucketsOf(VariantsOf(term), metadata)
        IN  /\ Embedded(bs, model)
            /\ results_terms[term] = ReportFrom(VariantsOf(term), bs, model)
            /\ results_terms[term].drift # <<>> =>
                   results_terms[term].drift[1].decade \in DOMAIN bs.bucket

\* The second term of a run is finished; the term before it had excerpts in
\* a decade in which this term has a centroid.
C19_Witness ==
    /\ pc = "begin"
    /\ termIdx = 3
    /\ Len(results_terms[term].drift) >= 2
    /\ \E d \in DriftDecades(term) :
           d \in DecadesOf(VariantsOf(terms[1]), metadata)

\* The decade and the similarity values of every record of a drift list, in
\* the order of the list.
SimilarityRows(drift) ==
    [ i \in 1..Len(drift) |->
        << drift[i].decade,
           drift[i].similarity_to_origin,
           IF HasPrevious(drift[i]) THEN <<drift[i].similarity_to_previous>>
           ELSE <<>> >> ]

\* C18: two runs on the same corpus and the same term list with the same
\* embedding function give the same reports: when the run is over, the
\* drift records of every term, their order and their rounded similarities
\* are those fixed by the corpus, the term and the embedding function.
C18_ReportsAreDeterministic ==
    pc = "done" =>
        \A k \in 1..Len(terms) :
            LET bs == BucketsOf(VariantsOf(terms[k]), metadata)
            IN  /\ terms[k] \in DOMAIN results_terms
                /\ Embedded(bs, model)
                /\ SimilarityRows(results_terms[terms[k]].drift) =
                       SimilaritiesFrom(bs, model)

\* A finished run in which a term has two records, one of them for a bucket
\* larger than the sample, with a similarity that is neither 1.0 nor nan.
C18_Witness ==
    /\ pc = "done"
    /\ \E k \in 1..Len(terms) :
           LET drift == results_terms[terms[k]].drift
           IN  /\ Len(drift) >= 2
               /\ \E i \in 1..Len(drift) : drift[i].num_contexts > MAX_SAMPLE
               /\ ~drift[2].similarity_to_origin.nan
               /\ drift[2].similarity_to_origin # One

\* C20: the timeline holds each decade in which some analysed term had an
\* excerpt, once, in ascending chronological order.
C20_TimelineChronological ==
    pc = "done" =>
        /\ SeqToSet(timeline) =
               UNION {DecadesOf(VariantsOf(terms[k]), metadata) :
                          k \in 1..Len(terms)}
        /\ \A i, j \in 1..Len(timeline) :
               i < j => DecadeNum(timeline[i]) < DecadeNum(timeline[j])

\* C21: a requested term without an entry in TERM_VARIANTS is analysed with
\* the term itself as its only variant: its scan runs with that variant and
\* its report lists exactly it.
C21_FallbackVariantIsTerm ==
    /\ (pc \in {"scan", "embed"} /\ term \notin DOMAIN TERM_VARIANTS)
           => variants = <<term>>
    /\ \A t \in DOMAIN results_terms :
           t \notin DOMAIN TERM_VARIANTS => results_terms[t].variants = <<t>>

\* The term without an entry has been reported with excerpts found by its
\* fallback variant.
C21_Witness ==
    /\ TermB \notin DOMAIN TERM_VARIANTS
    /\ TermB \in DOMAIN results_terms
    /\ results_terms[TermB].variants = <<TermB>>
    /\ results_terms[TermB].total_contexts > 0

\* No document yields an excerpt for the variants vs.
NoContext(vs, docs) ==
    \A i \in 1..Len(docs) : DocContexts(vs, docs)[i] = <<>>

\* C22: a term for which no document yields an excerpt does not stop the
\* run: no failure happens while it is the current term, it gets a report
\* with total_contexts 0, decades_covered 0 and an empty drift list, and a
\* run that ends has reported every term and written the output.
C22_TermWithoutContextsIsReported ==
    /\ pc = "aborted" => ~NoContext(variants, metadata)
    /\ (pc = "begin" /\ termIdx > 1 /\ NoContext(variants, metadata)) =>
           /\ term \in DOMAIN results_terms
           /\ results_terms[term] = [ variants        |-> VariantsOf(term),
                                      total_contexts  |-> 0,
                                      decades_covered |-> 0,
                                      drift           |-> <<>> ]
    /\ pc = "done" =>
           /\ written
           /\ \A k \in 1..Len(terms) : terms[k] \in DOMAIN results_terms

\* The run is over and written: the first term had no excerpt and an empty
\* report, the term after it was analysed and has drift records.
C22_Witness ==
    /\ pc = "done"
    /\ written
    /\ Len(terms) = 2
    /\ NoContext(VariantsOf(terms[1]), metadata)
    /\ results_terms[terms[1]].total_contexts = 0
    /\ results_terms[terms[1]].drift = <<>>
    /\ results_terms[terms[2]].drift # <<>>

\* The documents of the corpus that contributed nothing to the term t: not
\* read, or read without a single excerpt.
SkippedDocs(t) ==
    {i \in 1..Len(metadata) : DocContexts(VariantsOf(t), metadata)[i] = <<>>}

\* The decades in which the term t has excerpts but no drift record.
ExcludedDecades(t) == DecadesOf(VariantsOf(t), metadata) \ DriftDecades(t)

\* The fields of a term's report in which documents or decades are named
\* or counted.
ReportFields == {"variants", "total_contexts", "decades_covered", "drift"}

\* C23: the report of a term records what was skipped: when documents were
\* skipped or decades excluded for the term, its report holds something
\* beyond the variants, the two totals and the drift list of the decades
\* that were kept, from which they can be read with their counts.
C23_SkippedIsRecorded ==
    pc = "done" =>
        \A k \in 1..Len(terms) :
            (SkippedDocs(terms[k]) # {} \/ ExcludedDecades(terms[k]) # {})
                => DOMAIN results_terms[terms[k]] # ReportFields

\* The raw window of a match: [max(0, p - window), min(len(text), p + L + window)).
RawStart(r) == IF r.pos - context_window < 0 THEN 0 ELSE r.pos - context_window

RawEnd(r) ==
    IF r.pos + Len(r.variant) + context_window > Len(text) THEN Len(text)
    ELSE r.pos + Len(r.variant) + context_window

\* C24: for every match, the extension to sentence boundaries only ever
\* lengthens: the start never moves right, the end never moves left, the
\* extended window contains the raw clipped window and is not shorter.
C24_ExtensionOnlyLengthens ==
    xpc = "done" =>
        \A i \in 1..Len(matches) :
            LET r == matches[i]
            IN  /\ r.raw_start = RawStart(r)
                /\ r.raw_end = RawEnd(r)
                /\ 0 <= r.ctx_start
                /\ r.ctx_start <= r.raw_start
                /\ r.raw_end <= r.ctx_end
                /\ r.ctx_end <= Len(text)
                /\ r.ctx_end - r.ctx_start >= r.raw_end - r.raw_start

\* A match whose window was extended at both ends.
C24_Witness ==
    /\ xpc = "done"
    /\ \E i \in 1..Len(matches) :
           /\ matches[i].ctx_start < matches[i].raw_start
           /\ matches[i].raw_end < matches[i].ctx_end

\* C25: after the extension each end of the window is at a text boundary or
\* on a delimiter, and no delimiter lies between the raw window and the
\* extended one: the start is 0 or points at a delimiter, the end is
\* len(text) or points at a delimiter, and the characters passed on the way
\* out are not delimiters.
C25_ExtensionStopsAtDelimiter ==
    xpc = "done" =>
        \A i \in 1..Len(matches) :
            LET r == matches[i]
            IN  /\ r.ctx_start = 0 \/ IsDelim(text[r.ctx_start + 1])
                /\ r.ctx_end = Len(text) \/ IsDelim(text[r.ctx_end + 1])
                /\ \A q \in (r.ctx_start + 1)..r.raw_start : ~IsDelim(text[q + 1])
                /\ \A q \in r.raw_end..(r.ctx_end - 1) : ~IsDelim(text[q + 1])

\* A text with a match whose start moved left and stopped on a delimiter
\* inside the text, and a match whose end moved right and stopped on one.
C25_Witness ==
    /\ xpc = "done"
    /\ \E i, j \in 1..Len(matches) :
           /\ 0 < matches[i].ctx_start
           /\ matches[i].ctx_start < matches[i].raw_start
           /\ matches[j].raw_end < matches[j].ctx_end
           /\ matches[j].ctx_end < Len(text)

NotSpace(c) == ~IsSpace(c)

\* The characters of s that are not whitespace, in order.
Ink(s) == SelectSeq(s, NotSpace)

IsPrefix(x, y) == Len(x) <= Len(y) /\ x = SubSeq(y, 1, Len(x))

\* C26: every excerpt returned is longer than the minimum and at most the
\* maximum length, holds no newline and no two whitespace characters in a
\* row, and is the beginning of the whitespace-collapsed extended window:
\* it starts with the first non-blank character of the window, keeps the
\* window's non-blank characters in order, and holds all of them when it is
\* shorter than the maximum.
C26_ExcerptIsWindowPrefix ==
    xpc = "done" =>
        /\ Len(contexts) = Len(KeptMatches)
        /\ \A i \in 1..Len(KeptMatches) :
               LET r      == KeptMatches[i]
                   c      == contexts[i]
                   window == SubSeq(text, r.ctx_start + 1, r.ctx_end)
               IN  /\ c = r.context
                   /\ Len(c) > MIN_CONTEXT_LEN
                   /\ Len(c) <= MAX_CONTEXT_LEN
                   /\ \A k \in 1..Len(c) : c[k] # "\n"
                   /\ \A k \in 1..(Len(c) - 1) :
                          ~(IsSpace(c[k]) /\ IsSpace(c[k + 1]))
                   /\ ~IsSpace(c[1])
                   /\ IsPrefix(Ink(c), Ink(window))
                   /\ Len(c) < MAX_CONTEXT_LEN =>
                          Ink(c) = Ink(window) /\ ~IsSpace(c[Len(c)])

\* An excerpt cut at the maximum length from a longer window, so far from
\* centred on the match that the match is no longer in it.
C26_Witness ==
    /\ xpc = "done"
    /\ \E i \in 1..Len(KeptMatches) :
           LET r == KeptMatches[i]
           IN  /\ Len(r.context) = MAX_CONTEXT_LEN
               /\ r.ctx_end - r.ctx_start > MAX_CONTEXT_LEN
               /\ ~HasWholeWord(r.context, <<r.variant>>)

\* The calls of encode_calls belong to the buckets of contexts_by_decade.
CallsAreCurrent ==
    pc = "embed" \/ TermFinished \/ (pc = "aborted" /\ failure = "encode")

\* C27: the batch handed to the embedding function for a decade is the
\* first MAX_SAMPLE excerpts of the decade's bucket when the bucket is
\* larger, and the whole bucket when it holds 2 to MAX_SAMPLE excerpts; the
\* bucket is in document-scan order.
C27_BatchIsBucketPrefix ==
    /\ CallsAreCurrent =>
           \A k \in 1..Len(encode_calls) :
               LET b     == contexts_by_decade[encode_calls[k].decade]
                   batch == encode_calls[k].batch
               IN  /\ Len(b) >= 2
                   /\ Len(b) <= MAX_SAMPLE => batch = b
                   /\ Len(b) > MAX_SAMPLE =>
                          /\ Len(batch) = MAX_SAMPLE
                          /\ \A n \in 1..MAX_SAMPLE : batch[n] = b[n]
    /\ (pc = "embed" /\ embedIdx = 1) =>
           contexts_by_decade = BucketsOf(variants, metadata).bucket

\* A term with a call for a bucket larger than the sample, whose excerpt
\* left out differs from the first one, and a call for a whole bucket.
C27_Witness ==
    /\ TermFinished
    /\ \E k, j \in 1..Len(encode_calls) :
           LET b == contexts_by_decade[encode_calls[k].decade]
           IN  /\ Len(b) > MAX_SAMPLE
               /\ b[Len(b)] # b[1]
               /\ Len(encode_calls[k].batch) = MAX_SAMPLE
               /\ encode_calls[j].batch = contexts_by_decade[encode_calls[j].decade]

\* The decades of the calls made so far, in call order.
CallDecades == [k \in 1..Len(encode_calls) |-> encode_calls[k].decade]

\* The calls made for the current term: one per decade at most, each for a
\* decade with two or more excerpts and with a batch of two or more, in the
\* order of the decades; when the term is finished, every such decade has
\* had its call.
OneCallPerDecade ==
    CallsAreCurrent =>
        /\ \A k, j \in 1..Len(encode_calls) :
               CallDecades[k] = CallDecades[j] => k = j
        /\ \A k \in 1..Len(encode_calls) :
               /\ CallDecades[k] \in DOMAIN contexts_by_decade
               /\ Len(contexts_by_decade[CallDecades[k]]) >= 2
               /\ Len(encode_calls[k].batch) >= 2
        /\ TermFinished =>
               SeqToSet(CallDecades) =
                   {d \in DOMAIN contexts_by_decade :
                        Len(contexts_by_decade[d]) >= 2}

\* C28: for each term the embedding function is called exactly once for
\* each decade with at least 2 excerpts, with the decade's batch, never for
\* a decade with fewer and never once per excerpt; a call is made only in
\* the embedding loop, which starts when all documents of the term are
\* scanned and ends before the next term begins.
C28_OneEncodeCallPerDecade ==
    [][/\ OneCallPerDecade'
       /\ encode_calls' # encode_calls =>
              \/ /\ pc = "embed"
                 /\ docIdx > Len(metadata)
                 /\ term' = term
                 /\ Len(encode_calls') = Len(encode_calls) + 1
              \/ /\ pc = "scan"
                 /\ pc' = "embed"
                 /\ encode_calls' = <<>>]_vars

\* The second term of a run is finished with two calls made for it, and one
\* of its decades, with a single excerpt, had none.
C28_Witness ==
    /\ TermFinished
    /\ termIdx = 3
    /\ Len(encode_calls) = 2
    /\ \E d \in DOMAIN contexts_by_decade :
           Len(contexts_by_decade[d]) = 1 /\ d \notin SeqToSet(CallDecades)

Dots == <<".", ".", ".">>

\* ctx[:300] + ("..." if len(ctx) > 300 else "")
CutText(c) ==
    IF Len(c) > EXAMPLE_TEXT_LEN THEN SubSeq(c, 1, EXAMPLE_TEXT_LEN) \o Dots
    ELSE c

\* e is an example made from one of the first EXAMPLES_PER_DOC excerpts of
\* a document of decade d.
IsExampleOf(e, d, cs) ==
    /\ e.doc_id \in 1..Len(metadata)
    /\ get_decade(metadata[e.doc_id].year) = d
    /\ e.year = metadata[e.doc_id].year
    /\ Len(e.title) <= TITLE_LEN
    /\ IsPrefix(e.title, Titles[e.doc_id])
    /\ Len(e.title) < TITLE_LEN => e.title = Titles[e.doc_id]
    /\ Len(e.text) <= EXAMPLE_TEXT_LEN + Len(Dots)
    /\ \E n \in 1..Len(cs[e.doc_id]) :
           n <= EXAMPLES_PER_DOC /\ e.text = CutText(cs[e.doc_id][n])

RECURSIVE SumOf(_, _)
SumOf(f, S) ==
    IF S = {} THEN 0
    ELSE LET x == CHOOSE y \in S : TRUE IN f[x] + SumOf(f, S \ {x})

\* C30: in the report of a term decades_covered is the number of drift
\* records, one per decade with a centroid; num_contexts of a record is the
\* full size of the decade's bucket, at least 2 and not capped by the
\* sample; total_contexts is the sum of the sizes of all buckets, excluded
\* decades included, hence at least the sum of the records' num_contexts.
C30_ReportCounts ==
    (pc = "begin" /\ termIdx > 1) =>
        LET rep   == results_terms[term]
            sizes == [d \in DOMAIN contexts_by_decade |->
                         Len(contexts_by_decade[d])]
            nums  == [i \in 1..Len(rep.drift) |-> rep.drift[i].num_contexts]
        IN  /\ rep.decades_covered = Len(rep.drift)
            /\ \A i, j \in 1..Len(rep.drift) :
                   rep.drift[i].decade = rep.drift[j].decade => i = j
            /\ DriftDecades(term) = DOMAIN centroids
            /\ \A i \in 1..Len(rep.drift) :
                   /\ nums[i] = sizes[rep.drift[i].decade]
                   /\ nums[i] >= 2
            /\ rep.total_contexts = SumOf(sizes, DOMAIN sizes)
            /\ rep.total_contexts >= SumOf(nums, DOMAIN nums)

\* A report with a record whose num_contexts exceeds the sample size and
\* with a decade left out, so that total_contexts exceeds the records' sum.
C30_Witness ==
    /\ pc = "begin"
    /\ termIdx > 1
    /\ LET rep  == results_terms[term]
           nums == [i \in 1..Len(rep.drift) |-> rep.drift[i].num_contexts]
       IN  /\ \E i \in 1..Len(rep.drift) : nums[i] > MAX_SAMPLE
           /\ rep.total_contexts > SumOf(nums, DOMAIN nums)

====
